---------------------------- MODULE Spec2Model ----------------------------
(***************************************************************************)
(* The ETL banks pipeline: src/src/banks_project.py (log_progress,         *)
(* extract, transform, load_to_csv, load_to_db, run_query, main),          *)
(* src/config.py (the settings) and src/run_etl.py (the runner script).    *)
(*                                                                         *)
(* Representation.                                                         *)
(*  - A Python str is a sequence of one-character strings, so that strip,  *)
(*    replace, float(), repr() and the CSV writer are computed character   *)
(*    by character.                                                        *)
(*  - A Python float is an integer number of hundredths (100.0 is 10000,   *)
(*    0.93 is 93).  The cell texts and rates of the model carry at most    *)
(*    two fractional digits, so every parsed value and every rate is       *)
(*    exact, and a product of two of them is an exact number of            *)
(*    ten-thousandths.  np.round(x, 2) is rint(x * 100) / 100, and rint    *)
(*    rounds a tie to the even neighbour.  Binary rounding error of the    *)
(*    float product is not modelled.                                       *)
(*  - A DataFrame is [columns, rows]: the column names and the rows, each  *)
(*    row a tuple aligned with the columns.                                *)
(*  - A text file is [lines]: its lines; a file that does not exist, like  *)
(*    any absent value, is None.                                           *)
(*  - A raised exception is [type, msg, origin]: its class, its message    *)
(*    and the call it was raised in (the innermost frame of its            *)
(*    traceback).                                                          *)
(*  - Calls into requests, BeautifulSoup, pandas, sqlite3 and the file     *)
(*    system either succeed or raise; which one is the environment's       *)
(*    choice.                                                              *)
(***************************************************************************)
EXTENDS Integers, Sequences, FiniteSets, TLC

(***************************************************************************)
(* Bounds of the model.                                                    *)
(***************************************************************************)
\* The most data rows (tr after the header) of the page's first wikitable,
\* and the most records of a DataFrame a library client passes in.
MaxRows == 2

(***************************************************************************)
(* Settings: src/config.py.                                                *)
(***************************************************************************)
TABLE_ATTRIBUTES == <<"Name", "MC_USD_Billion">>

DEFAULT_EXCHANGE_RATES == [EUR |-> 93, GBP |-> 80, INR |-> 8295]

\* Python's None (a record, as every value it is compared with is one).
None == [none |-> TRUE]

(***************************************************************************)
(* Python str helpers.                                                     *)
(***************************************************************************)
Digits == <<"0", "1", "2", "3", "4", "5", "6", "7", "8", "9">>

IsDigit(c) == \E i \in 1..10 : Digits[i] = c

DigitVal(c) == (CHOOSE i \in 1..10 : Digits[i] = c) - 1

\* str.isspace for the characters of the model.
IsSpace(c) == c \in {" ", "\n", "\t"}

RECURSIVE lstrip(_)
lstrip(s) == IF s # <<>> /\ IsSpace(Head(s)) THEN lstrip(Tail(s)) ELSE s

RECURSIVE rstrip(_)
rstrip(s) ==
    IF s # <<>> /\ IsSpace(s[Len(s)]) THEN rstrip(SubSeq(s, 1, Len(s) - 1)) ELSE s

\* str.strip()
strip(s) == rstrip(lstrip(s))

\* str.replace(c, '') for a one-character c
remove(s, c) == SelectSeq(s, LAMBDA x : x # c)

AllDigits(s) == \A i \in 1..Len(s) : IsDigit(s[i])

RECURSIVE DigitsVal(_)
DigitsVal(s) ==
    IF s = <<>> THEN 0 ELSE DigitsVal(SubSeq(s, 1, Len(s) - 1)) * 10 + DigitVal(s[Len(s)])

\* The index of the first "." of s, or 0.
DotAt(s) == IF \E i \in 1..Len(s) : s[i] = "."
            THEN CHOOSE i \in 1..Len(s) : s[i] = "." /\ \A j \in 1..(i - 1) : s[j] # "."
            ELSE 0

(***************************************************************************)
(* float(str): surrounding whitespace is ignored; then an optional sign,   *)
(* digits with an optional fractional part ("12", "12.", "12.5", ".5").    *)
(* Anything else over the model's characters raises ValueError.  The value *)
(* is in hundredths; the model's texts have at most two fractional digits. *)
(***************************************************************************)
FloatBody(s) ==
    LET d    == DotAt(s)
        ip   == IF d = 0 THEN s ELSE SubSeq(s, 1, d - 1)
        fp   == IF d = 0 THEN <<>> ELSE SubSeq(s, d + 1, Len(s))
        fp2  == SubSeq(fp \o <<"0", "0">>, 1, 2)
    IN  IF AllDigits(ip) /\ AllDigits(fp) /\ Len(ip) + Len(fp) > 0 /\ Len(fp) <= 2
        THEN [ok |-> TRUE, val |-> DigitsVal(ip) * 100 + DigitsVal(fp2)]
        ELSE [ok |-> FALSE, val |-> 0]

float(text) ==
    LET s    == strip(text)
        neg  == s # <<>> /\ Head(s) = "-"
        sgn  == s # <<>> /\ Head(s) \in {"-", "+"}
        body == FloatBody(IF sgn THEN Tail(s) ELSE s)
    IN  IF body.ok
        THEN [ok |-> TRUE, val |-> IF neg THEN 0 - body.val ELSE body.val]
        ELSE [ok |-> FALSE, val |-> 0]


(***************************************************************************)
(* Exceptions and the log.                                                 *)
(***************************************************************************)
Exc(type, msg, origin) == [type |-> type, msg |-> msg, origin |-> origin]

\* log_progress: one more line in the log file (the time stamp is left
\* out; the log file is taken to be writable).
log_progress(lg, message) == Append(lg, message)

\* Every Python exception class of the model derives from Exception.
\* ImportError is the class run_etl.py tells apart.
IsImportError(e) == e.type = "ImportError"

(***************************************************************************)
(* DataFrames.                                                             *)
(***************************************************************************)
DataFrame(data, columns) == [columns |-> columns, rows |-> data]

HasColumn(df, c) == \E i \in 1..Len(df.columns) : df.columns[i] = c

ColIndex(df, c) == CHOOSE i \in 1..Len(df.columns) : df.columns[i] = c

\* df[c] as a list
Column(df, c) == [i \in 1..Len(df.rows) |-> df.rows[i][ColIndex(df, c)]]

\* df[c] = values: the column is replaced when it exists, else added last.
SetColumn(df, c, values) ==
    IF HasColumn(df, c)
    THEN [df EXCEPT !.rows = [i \in 1..Len(df.rows) |->
                                [df.rows[i] EXCEPT ![ColIndex(df, c)] = values[i]]]]
    ELSE [columns |-> Append(df.columns, c),
          rows    |-> [i \in 1..Len(df.rows) |-> Append(df.rows[i], values[i])]]

(***************************************************************************)
(* extract: src/src/banks_project.py, lines 63-116.                        *)
(***************************************************************************)
\* row_data with the test of line 99 as mc_value >= 0.
row_data_nonnegative(cols) ==
    IF Len(cols) >= 3
    THEN LET name == strip(cols[2])
             mc   == remove(remove(strip(cols[3]), "\n"), ",")
             f    == float(mc)
         IN  IF f.ok /\ f.val >= 0 THEN << <<name, f.val>> >> ELSE <<>>
    ELSE <<>>

\* Lines 92-102, one tr of the table: the record appended to data, if any.
row_data(cols) ==
    IF Len(cols) >= 3
    THEN LET name == strip(cols[2])
             mc   == remove(remove(strip(cols[3]), "\n"), ",")
             f    == float(mc)
         IN  IF f.ok /\ f.val > 0 THEN << <<name, f.val>> >> ELSE <<>>
    ELSE <<>>

\* Lines 89-102: the loop over the rows it is given (rows[1:]).
RECURSIVE collect_data(_)
collect_data(rows) ==
    IF rows = <<>> THEN <<>> ELSE row_data(Head(rows)) \o collect_data(Tail(rows))

\* no_data without the check of line 104.
no_data_never(data) == FALSE

\* Line 104: not data
no_data(data) == data = <<>>

\* rows[1:]
skip_header(rows) == IF rows = <<>> THEN <<>> ELSE Tail(rows)

\* What the call returns or raises, and the log after it.  http is the
\* outcome of requests.get / raise_for_status: "ok" or the exception class;
\* page is the parsed response: its wikitables, each a sequence of tr, each
\* tr the texts of its td/th cells.
extract(http, page, table_attribs, lg) ==
    LET lg1  == log_progress(lg, <<"Starting data extraction from Wikipedia...">>)
        data == collect_data(skip_header(page.tables[1]))
        df   == DataFrame(data, table_attribs)
    IN  IF http = "RequestException"
        THEN [exc |-> Exc("RequestException", "http", "extract"), ret |-> None,
              log |-> log_progress(lg1, <<"Connection error", "http">>)]
        ELSE IF http # "ok"
        THEN [exc |-> Exc(http, "lib", "extract"), ret |-> None,
              log |-> log_progress(lg1, <<"Extraction error", "lib">>)]
        ELSE IF page.tables = <<>>
        THEN [exc |-> Exc("ValueError", "Required tables not found", "extract"),
              ret |-> None,
              log |-> log_progress(lg1, <<"Extraction error", "Required tables not found">>)]
        ELSE IF no_data(data)
        THEN [exc |-> Exc("ValueError", "No valid data found", "extract"),
              ret |-> None,
              log |-> log_progress(lg1, <<"Extraction error", "No valid data found">>)]
        ELSE [exc |-> None, ret |-> df,
              log |-> log_progress(lg1, <<"Successfully extracted", Len(df.rows)>>)]

(***************************************************************************)
(* transform: src/src/banks_project.py, lines 119-151.                     *)
(***************************************************************************)
\* Line 136, rates_df.set_index('Currency').to_dict()['Rate']: the file's
\* lines <<currency, rate>> as a dict; of two lines with one currency the
\* later one stays.
RECURSIVE to_dict(_)
to_dict(lines) ==
    IF lines = <<>> THEN <<>>
    ELSE LET n    == Len(lines)
             rest == to_dict(SubSeq(lines, 1, n - 1))
         IN  [c \in (DOMAIN rest) \cup {lines[n][1]} |->
                IF c = lines[n][1] THEN lines[n][2] ELSE rest[c]]

\* np_round cutting the digits after the second instead of rounding.
np_round_truncating(p) == p \div 100

\* np.round(x, 2) of a product p given in ten-thousandths: the nearest
\* number of hundredths, a tie going to the even one.
np_round(p) ==
    LET q == p \div 100
        r == p % 100
    IN  IF r > 50 THEN q + 1
        ELSE IF r < 50 THEN q
        ELSE IF q % 2 = 0 THEN q ELSE q + 1

\* rates_in_use without the fallback of line 139.
rates_in_use_no_default(rate_file) ==
    IF rate_file # None THEN to_dict(rate_file.lines) ELSE <<>>

\* Lines 134-139: the rate table in use.
rates_in_use(rate_file) ==
    IF rate_file # None THEN to_dict(rate_file.lines) ELSE DEFAULT_EXCHANGE_RATES

\* add_conversion taking the built-in rate of a currency the table lacks.
add_conversion_with_default(st, exchange_rate, cur, col) ==
    IF st.exc # None THEN st
    ELSE IF ~HasColumn(st.df, "MC_USD_Billion")
    THEN [st EXCEPT !.exc = Exc("KeyError", "MC_USD_Billion", "transform")]
    ELSE LET usd  == Column(st.df, "MC_USD_Billion")
             rate == IF cur \in DOMAIN exchange_rate THEN exchange_rate[cur]
                     ELSE DEFAULT_EXCHANGE_RATES[cur]
         IN  [st EXCEPT !.df = SetColumn(st.df, col,
                  [i \in 1..Len(usd) |-> np_round(usd[i] * rate)])]

\* One of the lines 142-144: df[col] = [np.round(x * exchange_rate[cur], 2)
\* for x in df['MC_USD_Billion']].  The iterable is evaluated first, and
\* exchange_rate[cur] is looked up once per element: never for an empty df.
add_conversion(st, exchange_rate, cur, col) ==
    IF st.exc # None THEN st
    ELSE IF ~HasColumn(st.df, "MC_USD_Billion")
    THEN [st EXCEPT !.exc = Exc("KeyError", "MC_USD_Billion", "transform")]
    ELSE IF st.df.rows # <<>> /\ cur \notin DOMAIN exchange_rate
    THEN [st EXCEPT !.exc = Exc("KeyError", cur, "transform")]
    ELSE LET usd == Column(st.df, "MC_USD_Billion")
         IN  [st EXCEPT !.df = SetColumn(st.df, col,
                  [i \in 1..Len(usd) |-> np_round(usd[i] * exchange_rate[cur])])]

\* The three conversions, in the order of the lines 142-144.
conversions(df, exchange_rate) ==
    add_conversion(
        add_conversion(
            add_conversion([exc |-> None, df |-> df],
                           exchange_rate, "GBP", "MC_GBP_Billion"),
            exchange_rate, "EUR", "MC_EUR_Billion"),
        exchange_rate, "INR", "MC_INR_Billion")

\* What the call returns or raises, the DataFrame object it was given as it
\* is afterwards (the columns are added in place), and the log.  read_csv
\* is the outcome of pd.read_csv on an existing file.
transform(df, rate_file, read_csv, lg) ==
    LET lg1 == log_progress(lg, <<"Starting data transformation...">>)
        lg2 == IF rate_file # None THEN lg1
               ELSE log_progress(lg1, <<"Exchange rates CSV not found, using default rates">>)
        st  == conversions(df, rates_in_use(rate_file))
    IN  IF rate_file # None /\ read_csv # "ok"
        THEN [exc |-> Exc(read_csv, "read_csv", "transform"), ret |-> None, df |-> df,
              log |-> log_progress(lg1, <<"Transformation error", "read_csv">>)]
        ELSE IF st.exc # None
        THEN [exc |-> st.exc, ret |-> None, df |-> st.df,
              log |-> log_progress(lg2, <<"Transformation error", st.exc.msg>>)]
        ELSE [exc |-> None, ret |-> st.df, df |-> st.df,
              log |-> log_progress(lg2,
                         <<"Data transformation complete. Initiating Loading process">>)]

(***************************************************************************)
(* load_to_csv: src/src/banks_project.py, lines 154-169.                   *)
(* The text of a CSV file is its sequence of lines; a line is a sequence   *)
(* of one-character strings, except that a column name of the header line *)
(* is kept as one token (the names hold no delimiter and no quote).        *)
(***************************************************************************)
RECURSIVE nat_str(_)
nat_str(n) ==
    IF n < 10 THEN <<Digits[n + 1]>> ELSE nat_str(n \div 10) \o <<Digits[(n % 10) + 1]>>

\* repr of a float given in hundredths: "100.0", "139.96", "0.5", "-5.0".
float_repr(h) ==
    LET a    == IF h < 0 THEN 0 - h ELSE h
        frac == a % 100
        fs   == IF frac % 10 = 0 THEN <<Digits[(frac \div 10) + 1]>>
                ELSE <<Digits[(frac \div 10) + 1], Digits[(frac % 10) + 1]>>
    IN  (IF h < 0 THEN <<"-">> ELSE <<>>) \o nat_str(a \div 100) \o <<".">> \o fs

\* csv.QUOTE_MINIMAL: a text holding the delimiter, a quote or a line break
\* is written between quotes, its quotes doubled.
RECURSIVE double_quotes(_)
double_quotes(s) ==
    IF s = <<>> THEN <<>>
    ELSE (IF Head(s) = "\"" THEN <<"\"", "\"">> ELSE <<Head(s)>>) \o double_quotes(Tail(s))

\* csv_text with no quoting.
csv_text_unquoted(s) == s

csv_text(s) ==
    IF \E i \in 1..Len(s) : s[i] \in {",", "\"", "\n", "\r"}
    THEN <<"\"">> \o double_quotes(s) \o <<"\"">>
    ELSE s

\* A cell of the frame as CSV: the Name column holds texts, the others floats.
csv_cell(df, j, v) == IF df.columns[j] = "Name" THEN csv_text(v) ELSE float_repr(v)

RECURSIVE join_fields(_)
join_fields(fields) ==
    IF fields = <<>> THEN <<>>
    ELSE IF Len(fields) = 1 THEN fields[1]
    ELSE fields[1] \o <<",">> \o join_fields(Tail(fields))

\* df.to_csv(path, index=False): the header line, then one line per row.
to_csv(df) ==
    <<join_fields([j \in 1..Len(df.columns) |-> <<df.columns[j]>>])>>
    \o [i \in 1..Len(df.rows) |->
          join_fields([j \in 1..Len(df.columns) |-> csv_cell(df, j, df.rows[i][j])])]

\* outcome is "ok" or the class raised by os.makedirs or to_csv; written
\* is how far a failing write got: -1 when the file was not opened (it is
\* left as it was), else the number of lines that reached it.
load_to_csv(df, old_file, outcome, written, lg) ==
    IF outcome = "ok"
    THEN [exc |-> None, file |-> [lines |-> to_csv(df)],
          log |-> log_progress(lg, <<"Data saved to CSV file">>)]
    ELSE [exc  |-> Exc(outcome, "csv", "load_to_csv"),
          file |-> IF written < 0 THEN old_file
                   ELSE [lines |-> SubSeq(to_csv(df), 1, written)],
          log  |-> log_progress(lg, <<"CSV save error", "csv">>)]

(***************************************************************************)
(* load_to_db: src/src/banks_project.py, lines 171-185.                    *)
(***************************************************************************)
\* to_sql with if_exists='append'.
to_sql_append(df, old_table) ==
    IF old_table = None THEN [columns |-> df.columns, rows |-> df.rows]
    ELSE [columns |-> old_table.columns, rows |-> old_table.rows \o df.rows]

\* df.to_sql(table_name, con, if_exists='replace', index=False): the table
\* is dropped when it exists and created again from the frame.
to_sql_replace(df, old_table) == [columns |-> df.columns, rows |-> df.rows]

\* outcome is "ok" or the class raised by to_sql; dropped tells whether a
\* failing call had already dropped the old table.
load_to_db(df, old_table, outcome, dropped, lg) ==
    IF outcome = "ok"
    THEN [exc |-> None, table |-> to_sql_replace(df, old_table),
          log |-> log_progress(lg, <<"Data loaded to Database as a table, Executing queries">>)]
    ELSE [exc   |-> Exc(outcome, "db", "load_to_db"),
          table |-> IF dropped THEN None ELSE old_table,
          log   |-> log_progress(lg, <<"Database load error", "db">>)]

(***************************************************************************)
(* run_query: src/src/banks_project.py, lines 188-207, for the three       *)
(* statements of main (lines 236-238).                                     *)
(***************************************************************************)
RECURSIVE sum_seq(_)
sum_seq(s) == IF s = <<>> THEN 0 ELSE Head(s) + sum_seq(Tail(s))

\* AVG is kept as <<sum, count>>.
query_result(query, table) ==
    CASE query = "SELECT * FROM Largest_banks" -> table
      [] query = "SELECT AVG(MC_GBP_Billion) FROM Largest_banks" ->
            <<sum_seq(Column(table, "MC_GBP_Billion")), Len(table.rows)>>
      [] query = "SELECT Name FROM Largest_banks LIMIT 5" ->
            SubSeq(Column(table, "Name"), 1, IF Len(table.rows) < 5 THEN Len(table.rows) ELSE 5)

\* outcome is "ok" or the class raised by pd.read_sql.  A statement over a
\* table or a column that does not exist raises.
run_query(query, table, outcome, lg) ==
    LET known == /\ table # None
                 /\ query = "SELECT AVG(MC_GBP_Billion) FROM Largest_banks"
                       => HasColumn(table, "MC_GBP_Billion")
                 /\ query = "SELECT Name FROM Largest_banks LIMIT 5"
                       => HasColumn(table, "Name")
    IN  IF outcome # "ok" \/ ~known
        THEN [exc |-> Exc(IF outcome # "ok" THEN outcome ELSE "DatabaseError",
                          "query", "run_query"),
              ret |-> None,
              log |-> log_progress(lg, <<"Query execution error", "query">>)]
        ELSE [exc |-> None, ret |-> query_result(query, table),
              log |-> log_progress(lg, <<"Query executed successfully">>)]

QUERIES == << "SELECT * FROM Largest_banks",
              "SELECT AVG(MC_GBP_Billion) FROM Largest_banks",
              "SELECT Name FROM Largest_banks LIMIT 5" >>

(***************************************************************************)
(* The inputs of the model.                                                *)
(***************************************************************************)
\* The sequences over S of length at most n.
BSeq(S, n) == UNION {[1..k -> S] : k \in 0..n}

\* The header tr of the table and the data tr the page may hold: each the
\* texts of its cells (rank, name, market cap).
HeaderRow == << <<"R">>, <<"N">>, <<"M">> >>

RowSet ==
    { << <<"1">>, <<" ", "A", "\n">>, <<"1", "0", "0", "\n">> >>,
      << <<"2">>, <<"B">>, <<"a", "b", "c">> >>,
      << <<"3">>, <<"C">>, <<"-", "5">> >>,
      << <<"4">>, <<"D">>, <<"5", "0">> >>,
      << <<"5">>, <<"E">>, <<"0">> >>,
      << <<"6">>, <<"F", ",", "G">>, <<" ", "1", ",", "0", "5", "0", ".", "5">> >>,
      << <<"7">>, <<"H">> >>,
      << <<"8">>, <<"J">>, <<"1", "5", "0", ".", "5">> >> }

\* The parsed pages: no wikitable, or a first wikitable of a header and
\* up to MaxRows data rows.
Pages == {[tables |-> <<>>]}
         \cup {[tables |-> << <<HeaderRow>> \o d >>] : d \in BSeq(RowSet, MaxRows)}

\* The exchange-rate files: absent, or the lines of any of the currencies.
RateLines == << <<"EUR", 95>>, <<"GBP", 75>>, <<"INR", 8250>> >>

RateFiles ==
    {None} \cup {[lines |-> SelectSeq(RateLines, LAMBDA l : l[1] \in S)] :
                    S \in SUBSET {"EUR", "GBP", "INR"}}

\* The frames a client of the library builds (examples/basic_usage.py,
\* tests/test_banks_project.py): Name and MC_USD_Billion.
SampleRows == { << <<"A">>, 10000 >>, << <<"J">>, 15050 >>, << <<"N">>, -500 >> }

SampleFrames == {DataFrame(d, TABLE_ATTRIBUTES) : d \in BSeq(SampleRows, MaxRows)}

\* What an earlier run left behind: nothing, or a table and a CSV file.
OldTable ==
    [columns |-> <<"Name", "MC_USD_Billion", "MC_GBP_Billion", "MC_EUR_Billion",
                   "MC_INR_Billion">>,
     rows    |-> << << <<"O">>, 20000, 16000, 18600, 1659000 >> >>]

\* The outcomes of a call into a library: "ok", or the class it raises: the
\* class the call is known for, or ImportError (an import the library puts
\* off until the call).  Every except clause of banks_project.py catches
\* Exception and raises again, whatever the class.
Outcomes(class) == {"ok", class, "ImportError"}

(***************************************************************************)
(* The state.                                                              *)
(***************************************************************************)
VARIABLES
    entry,            \* "run_etl": the runner script; "client": a library client
    pc,               \* the position of the runner script or of the client
    main_pc,          \* the stage main is at
    queries_run,      \* how many of the statements of QUERIES main has run
    sql_connection,   \* main's connection: "None", "open" or "closed"
    extracted_data,   \* main's extracted_data
    transformed_data, \* main's transformed_data (the same object once bound)
    main_exc,         \* the exception main has raised to its caller
    sample_data,      \* the client's frame
    calls,            \* the calls made so far, in order: what each was given
                      \* and what came back
    rate_file,        \* the file at CSV_PATH
    output_csv,       \* the file at OUTPUT_CSV_PATH
    db_table,         \* the table TABLE_NAME of the database DB_NAME
    log,              \* the file at LOG_PATH, as appended to since the start
    console,          \* what the runner script has printed
    exit_status       \* the runner's exit status, -1 while it runs

vars == <<entry, pc, main_pc, queries_run, sql_connection, extracted_data,
          transformed_data, main_exc, sample_data, calls, rate_file, output_csv,
          db_table, log, console, exit_status>>

main_vars == <<main_pc, queries_run, sql_connection, extracted_data,
               transformed_data, main_exc>>

runner_vars == <<console, exit_status>>

files == <<rate_file, output_csv, db_table>>

Init ==
    /\ entry \in {"run_etl", "client"}
    /\ pc = IF entry = "run_etl" THEN "import" ELSE "transform"
    /\ main_pc = "NotStarted"
    /\ queries_run = 0
    /\ sql_connection = "None"
    /\ extracted_data = None
    /\ transformed_data = None
    /\ main_exc = None
    /\ IF entry = "client" THEN sample_data \in SampleFrames ELSE sample_data = None
    /\ calls = <<>>
    /\ rate_file \in RateFiles
    /\ \/ db_table = None /\ output_csv = None
       \/ db_table = OldTable /\ output_csv = [lines |-> to_csv(OldTable)]
    /\ log = <<>>
    /\ console = <<>>
    /\ exit_status = -1

(***************************************************************************)
(* main: src/src/banks_project.py, lines 209-245.  One action per stage;   *)
(* each ends either at the next stage or, through the handler of the lines *)
(* 243-245, at Failed with the exception raised to the caller.             *)
(***************************************************************************)
\* Where main is after a stage: the try block goes on to the statement that
\* follows, an exception leaves it for the handler, which raises.
\* stage_after for a main that goes on after an exception.
stage_after_swallow(next, exc) == next

stage_after(next, exc) == IF exc # None THEN "Failed" ELSE next

\* Lines 243-245: the handler logs the failure and raises what it caught.
handler_log(lg, exc) ==
    IF exc # None THEN log_progress(lg, <<"ETL Process failed", exc.msg>>) ELSE lg

\* The connection after a stage that did not open or close it: no branch of
\* main closes it but line 240.
\* connection_after for a handler that closes the connection.
connection_after_closing(conn, exc) == IF exc # None THEN "closed" ELSE conn

connection_after(conn, exc) == conn

\* Lines 214-218.
MainInit ==
    /\ pc = "main" /\ main_pc = "Init"
    /\ \E outcome \in {"ok", "OperationalError"} :
         LET lg1 == log_progress(log,
                       <<"ETL Process initialization complete. Starting ETL pipeline...">>)
             exc == IF outcome = "ok" THEN None ELSE Exc(outcome, "connect", "connect")
             lg2 == IF exc = None THEN log_progress(lg1, <<"SQL Connection initiated">>)
                    ELSE lg1
         IN  /\ sql_connection' = IF exc = None THEN "open" ELSE sql_connection
             /\ calls' = Append(calls, [fn |-> "connect", exc |-> exc])
             /\ main_pc' = stage_after("Extract", exc)
             /\ main_exc' = exc
             /\ log' = handler_log(lg2, exc)
    /\ UNCHANGED <<entry, pc, queries_run, extracted_data, transformed_data,
                   sample_data, files, runner_vars>>

\* Lines 221-224.
MainExtract ==
    /\ pc = "main" /\ main_pc = "Extract"
    /\ \E http \in Outcomes("RequestException"), page \in Pages :
         LET r == extract(http, page, TABLE_ATTRIBUTES,
                          log_progress(log, <<"Step 1: Data Extraction">>))
         IN  /\ extracted_data' = r.ret
             /\ calls' = Append(calls, [fn |-> "extract", http |-> http, page |-> page,
                                        exc |-> r.exc, ret |-> r.ret])
             /\ main_pc' = stage_after("Transform", r.exc)
             /\ main_exc' = r.exc
             /\ log' = handler_log(r.log, r.exc)
             /\ sql_connection' = connection_after(sql_connection, r.exc)
    /\ UNCHANGED <<entry, pc, queries_run, transformed_data, sample_data, files,
                   runner_vars>>

\* Lines 226-229.  transform adds its columns to the frame it is given, so
\* extracted_data changes with it.
MainTransform ==
    /\ pc = "main" /\ main_pc = "Transform"
    /\ \E read_csv \in Outcomes("ParserError") :
         LET r == transform(extracted_data, rate_file, read_csv,
                            log_progress(log, <<"Step 2: Data Transformation">>))
         IN  /\ extracted_data' = r.df
             /\ transformed_data' = r.ret
             /\ calls' = Append(calls, [fn |-> "transform", df |-> extracted_data,
                                        rate_file |-> rate_file, read_csv |-> read_csv,
                                        exc |-> r.exc, ret |-> r.ret])
             /\ main_pc' = stage_after("LoadCsv", r.exc)
             /\ main_exc' = r.exc
             /\ log' = handler_log(r.log, r.exc)
             /\ sql_connection' = connection_after(sql_connection, r.exc)
    /\ UNCHANGED <<entry, pc, queries_run, sample_data, files, runner_vars>>

\* Lines 231-232.
MainLoadCsv ==
    /\ pc = "main" /\ main_pc = "LoadCsv"
    /\ \E outcome \in Outcomes("OSError"), written \in -1..Len(transformed_data.rows) :
         LET r == load_to_csv(transformed_data, output_csv, outcome, written,
                              log_progress(log, <<"Step 3: Data Loading">>))
         IN  /\ output_csv' = r.file
             /\ calls' = Append(calls, [fn |-> "load_to_csv", df |-> transformed_data,
                                        exc |-> r.exc, file |-> r.file])
             /\ main_pc' = stage_after("LoadDb", r.exc)
             /\ main_exc' = r.exc
             /\ log' = handler_log(r.log, r.exc)
             /\ sql_connection' = connection_after(sql_connection, r.exc)
    /\ UNCHANGED <<entry, pc, queries_run, extracted_data, transformed_data,
                   sample_data, rate_file, db_table, runner_vars>>

\* Line 233.
MainLoadDb ==
    /\ pc = "main" /\ main_pc = "LoadDb"
    /\ \E outcome \in Outcomes("DatabaseError"), dropped \in BOOLEAN :
         LET r == load_to_db(transformed_data, db_table, outcome, dropped, log)
         IN  /\ db_table' = r.table
             /\ calls' = Append(calls, [fn |-> "load_to_db", df |-> transformed_data,
                                        before |-> db_table, exc |-> r.exc,
                                        table |-> r.table])
             /\ main_pc' = stage_after("Query", r.exc)
             /\ main_exc' = r.exc
             /\ log' = handler_log(r.log, r.exc)
             /\ sql_connection' = connection_after(sql_connection, r.exc)
    /\ UNCHANGED <<entry, pc, queries_run, extracted_data, transformed_data,
                   sample_data, rate_file, output_csv, runner_vars>>

\* Lines 235-238: the three statements, one call each.
MainQuery ==
    /\ pc = "main" /\ main_pc = "Query"
    /\ \E outcome \in Outcomes("DatabaseError") :
         LET lg1 == IF queries_run = 0
                    THEN log_progress(log, <<"Step 4: Running Queries">>) ELSE log
             r   == run_query(QUERIES[queries_run + 1], db_table, outcome, lg1)
         IN  /\ calls' = Append(calls, [fn |-> "run_query",
                                        query |-> QUERIES[queries_run + 1],
                                        exc |-> r.exc, ret |-> r.ret])
             /\ queries_run' = IF r.exc = None THEN queries_run + 1 ELSE queries_run
             /\ main_pc' = stage_after(IF queries_run + 1 = Len(QUERIES) THEN "Close"
                                       ELSE "Query", r.exc)
             /\ main_exc' = r.exc
             /\ log' = handler_log(r.log, r.exc)
             /\ sql_connection' = connection_after(sql_connection, r.exc)
    /\ UNCHANGED <<entry, pc, extracted_data, transformed_data, sample_data, files,
                   runner_vars>>

\* Lines 240-241.
MainClose ==
    /\ pc = "main" /\ main_pc = "Close"
    /\ \E outcome \in {"ok", "ProgrammingError"} :
         LET exc == IF outcome = "ok" THEN None ELSE Exc(outcome, "close", "close")
             lg1 == IF exc = None
                    THEN log_progress(log, <<"ETL Process completed successfully!">>)
                    ELSE log
         IN  /\ sql_connection' = IF exc = None THEN "closed" ELSE sql_connection
             /\ calls' = Append(calls, [fn |-> "close", exc |-> exc])
             /\ main_pc' = stage_after("Done", exc)
             /\ main_exc' = exc
             /\ log' = handler_log(lg1, exc)
    /\ UNCHANGED <<entry, pc, queries_run, extracted_data, transformed_data,
                   sample_data, files, runner_vars>>

(***************************************************************************)
(* The runner script: src/run_etl.py, lines 12-25.                         *)
(***************************************************************************)
\* Lines 20-22, the handler of ImportError: three lines are printed and
\* the script runs off its end.
import_error_lines(e) ==
    << <<"Import error", e.msg>>, <<"Please ensure all dependencies are installed:">>,
       <<"pip install -r requirements.txt">> >>

\* Lines 19-25, the handlers in their order: what is printed and the exit
\* status.  Only the second handler calls sys.exit(1); a script that runs
\* off its end exits with 0.
runner_except(e) ==
    IF IsImportError(e)
    THEN [printed |-> import_error_lines(e), status |-> 0]
    ELSE [printed |-> << <<"ETL Process failed", e.msg>> >>, status |-> 1]

\* Lines 13-15: the import of banks_project (and with it of pandas, numpy,
\* requests and bs4) succeeds or raises ImportError.
RunnerImport ==
    /\ entry = "run_etl" /\ pc = "import"
    /\ \E outcome \in {"ok", "ImportError"} :
         IF outcome = "ok"
         THEN /\ console' = << <<"Starting ETL Banks Project...">>, <<"=====">> >>
              /\ pc' = "main"
              /\ main_pc' = "Init"
              /\ exit_status' = exit_status
         ELSE LET r == runner_except(Exc("ImportError", "banks_project", "import"))
              IN  /\ console' = r.printed
                  /\ pc' = "exited"
                  /\ main_pc' = main_pc
                  /\ exit_status' = r.status
    /\ UNCHANGED <<entry, queries_run, sql_connection, extracted_data,
                   transformed_data, main_exc, sample_data, calls, files, log>>

\* Lines 17-18: main has returned.
RunnerReturn ==
    /\ entry = "run_etl" /\ pc = "main" /\ main_pc = "Done"
    /\ console' = console \o << <<"=====">>, <<"ETL Process completed successfully!">> >>
    /\ pc' = "exited"
    /\ exit_status' = 0
    /\ UNCHANGED <<entry, main_vars, sample_data, calls, files, log>>

\* Lines 19-25: main has raised.
RunnerExcept ==
    /\ entry = "run_etl" /\ pc = "main" /\ main_pc = "Failed"
    /\ LET r == runner_except(main_exc)
       IN  /\ console' = console \o r.printed
           /\ exit_status' = r.status
    /\ pc' = "exited"
    /\ UNCHANGED <<entry, main_vars, sample_data, calls, files, log>>

(***************************************************************************)
(* A client of the library, as examples/basic_usage.py and the tests are:  *)
(* it builds a frame, passes it to transform, going on if that raises, and *)
(* loads the frame into the database twice.                                *)
(***************************************************************************)
ClientTransform ==
    /\ entry = "client" /\ pc = "transform"
    /\ \E read_csv \in Outcomes("ParserError") :
         LET r == transform(sample_data, rate_file, read_csv, log)
         IN  /\ sample_data' = r.df
             /\ calls' = Append(calls, [fn |-> "transform", df |-> sample_data,
                                        rate_file |-> rate_file, read_csv |-> read_csv,
                                        exc |-> r.exc, ret |-> r.ret])
             /\ log' = r.log
    /\ pc' = "load"
    /\ UNCHANGED <<entry, main_vars, files, runner_vars>>

ClientLoadDb ==
    /\ entry = "client" /\ pc \in {"load", "load again"}
    /\ \E outcome \in Outcomes("DatabaseError"), dropped \in BOOLEAN :
         LET r == load_to_db(sample_data, db_table, outcome, dropped, log)
         IN  /\ db_table' = r.table
             /\ calls' = Append(calls, [fn |-> "load_to_db", df |-> sample_data,
                                        before |-> db_table, exc |-> r.exc,
                                        table |-> r.table])
             /\ log' = r.log
    /\ pc' = IF pc = "load" THEN "load again" ELSE "done"
    /\ UNCHANGED <<entry, main_vars, sample_data, rate_file, output_csv, runner_vars>>

Next ==
    \/ RunnerImport
    \/ MainInit
    \/ MainExtract
    \/ MainTransform
    \/ MainLoadCsv
    \/ MainLoadDb
    \/ MainQuery
    \/ MainClose
    \/ RunnerReturn
    \/ RunnerExcept
    \/ ClientTransform
    \/ ClientLoadDb

Spec == Init /\ [][Next]_vars

(***************************************************************************)
(* The properties.                                                         *)
(***************************************************************************)
\* The functions called so far, in order.
History == [i \in 1..Len(calls) |-> calls[i].fn]

Last(q) == q[Len(q)]

\* The calls of a run of main that no stage fails.
FixedOrder == <<"connect", "extract", "transform", "load_to_csv", "load_to_db",
                "run_query", "run_query", "run_query", "close">>

\* The stage main is at after n calls that all succeeded.
StageAt(n) ==
    <<"Init", "Extract", "Transform", "LoadCsv", "LoadDb", "Query", "Query", "Query",
      "Close", "Done">>[n + 1]

\* C1: in a run of main the calls are made in the fixed order connect,
\* extract, transform, load_to_csv, load_to_db, the three run_query, close,
\* none twice; main is at the stage that follows the calls made; a call that
\* raises is the last one made, main is then at Failed, and the exception is
\* the one main raises to its caller, which the runner prints.
C1_StageOrder ==
    entry = "run_etl" =>
      /\ Len(calls) <= Len(FixedOrder)
      /\ History = SubSeq(FixedOrder, 1, Len(calls))
      /\ \A i \in 1..(Len(calls) - 1) : calls[i].exc = None
      /\ main_pc \in {"NotStarted", "Failed"} \/ main_pc = StageAt(Len(calls))
      /\ main_pc = "NotStarted" => calls = <<>>
      /\ (calls # <<>> /\ Last(calls).exc # None) =>
            main_pc = "Failed" /\ main_exc = Last(calls).exc
      /\ main_pc = "Failed" =>
            /\ calls # <<>> /\ Last(calls).exc # None
            /\ Last(log) = <<"ETL Process failed", main_exc.msg>>
      /\ (main_pc = "Failed" /\ pc = "exited") =>
            \E i \in 1..Len(console) : Last(console[i]) = main_exc.msg

\* C1's case: the first query failed, after five stages that succeeded, and
\* the runner has exited.
C1_Witness ==
    /\ entry = "run_etl" /\ pc = "exited" /\ main_pc = "Failed"
    /\ History = SubSeq(FixedOrder, 1, 6)
    /\ main_exc.origin = "run_query"

\* C2: the runner exits with 0 only when main reached Done, having printed
\* the completion banner last; whenever main raised, whatever the class,
\* the runner printed the error and exits with a status other than 0.
C2_ExitStatus ==
    (entry = "run_etl" /\ pc = "exited") =>
      /\ exit_status = 0 =>
            /\ main_pc = "Done"
            /\ Last(console) = <<"ETL Process completed successfully!">>
      /\ main_pc = "Failed" =>
            /\ exit_status # 0
            /\ \E i \in 1..Len(console) : Last(console[i]) = main_exc.msg

\* C9: in a run of main the connection is opened by the first call, before
\* extract is called, and is open at every later stage; it is closed exactly
\* when main is at Done; when main is at Failed it is still open, unless
\* the failure was that of opening it.
C9_Connection ==
    entry = "run_etl" =>
      /\ main_pc \in {"NotStarted", "Init"} => sql_connection = "None"
      /\ main_pc \in {"Extract", "Transform", "LoadCsv", "LoadDb", "Query", "Close"} =>
            sql_connection = "open"
      /\ sql_connection = "closed" <=> main_pc = "Done"
      /\ main_pc = "Failed" =>
            sql_connection = IF main_exc.origin = "connect" THEN "None" ELSE "open"
      /\ \A i \in 1..Len(calls) :
            calls[i].fn = "extract" => calls[1].fn = "connect" /\ calls[1].exc = None

\* C9's case: a run that failed in a stage after Init, the runner gone.
C9_Witness ==
    /\ entry = "run_etl" /\ pc = "exited" /\ main_pc = "Failed"
    /\ main_exc.origin = "load_to_db"
    /\ sql_connection = "open"

\* The data rows of a page that has a wikitable: the tr after the first.
DataRows(page) == SubSeq(page.tables[1], 2, Len(page.tables[1]))

\* The rows of RowSet whose third cell parses as a number above 0, by their
\* rank cell, and for each the trimmed name and the value (in hundredths):
\* "100\n" is 100.0, "50" is 50.0, " 1,050.5" is 1050.5, "150.5" is 150.5;
\* "abc", "-5", "0" and the row of two cells are not among them.
ValidRanks == {<<"1">>, <<"4">>, <<"6">>, <<"8">>}

ExpectedRecord(cols) ==
    CASE cols[1] = <<"1">> -> << <<"A">>, 10000 >>
      [] cols[1] = <<"4">> -> << <<"D">>, 5000 >>
      [] cols[1] = <<"6">> -> << <<"F", ",", "G">>, 105050 >>
      [] cols[1] = <<"8">> -> << <<"J">>, 15050 >>

ValidRows(page) == SelectSeq(DataRows(page), LAMBDA cols : cols[1] \in ValidRanks)

\* The scenario of the specification: ("Bank A", "100"), ("Bank B", "abc"),
\* ("Bank C", "-5"), ("Bank D", "50").
ScenarioRows ==
    << << <<"1">>, <<"B", "a", "n", "k", " ", "A">>, <<"1", "0", "0">> >>,
       << <<"2">>, <<"B", "a", "n", "k", " ", "B">>, <<"a", "b", "c">> >>,
       << <<"3">>, <<"B", "a", "n", "k", " ", "C">>, <<"-", "5">> >>,
       << <<"4">>, <<"B", "a", "n", "k", " ", "D">>, <<"5", "0">> >> >>

\* C3: every call of extract that got the page, found a table and at least
\* one valid row in it returns, without raising, the frame of the columns
\* Name and MC_USD_Billion whose rows are the valid rows in page order, each
\* as (trimmed name, parsed value); the other rows are left out.  The
\* scenario's four rows give (Bank A, 100.0), (Bank D, 50.0).
C3_ExtractValidRows ==
    /\ \A i \in 1..Len(calls) :
          (/\ calls[i].fn = "extract" /\ calls[i].http = "ok"
           /\ calls[i].page.tables # <<>>
           /\ ValidRows(calls[i].page) # <<>>) =>
             LET valid == ValidRows(calls[i].page)
             IN  /\ calls[i].exc = None
                 /\ calls[i].ret.columns = <<"Name", "MC_USD_Billion">>
                 /\ calls[i].ret.rows = [k \in 1..Len(valid) |-> ExpectedRecord(valid[k])]
    /\ extract("ok", [tables |-> << <<HeaderRow>> \o ScenarioRows >>],
               TABLE_ATTRIBUTES, <<>>).ret.rows
          = << << <<"B", "a", "n", "k", " ", "A">>, 10000 >>,
               << <<"B", "a", "n", "k", " ", "D">>, 5000 >> >>

\* C3's case: a page of an invalid and a valid row, one record returned.
C3_Witness ==
    \E i \in 1..Len(calls) :
       /\ calls[i].fn = "extract" /\ calls[i].http = "ok"
       /\ calls[i].page.tables # <<>>
       /\ Len(DataRows(calls[i].page)) = 2
       /\ DataRows(calls[i].page)[1][1] = <<"5">>
       /\ calls[i].exc = None
       /\ calls[i].ret.rows = << << <<"F", ",", "G">>, 105050 >> >>

\* C4: every call of extract that got the page and found a table with no
\* valid row in it (no data row at all, or each of fewer than three cells,
\* not numeric, or not above 0) raises ValueError "No valid data found" (the
\* specification's DataNotFoundError) and returns nothing; main is then at
\* Failed with no extracted_data.
C4_ExtractNoValidRows ==
    \A i \in 1..Len(calls) :
       (/\ calls[i].fn = "extract" /\ calls[i].http = "ok"
        /\ calls[i].page.tables # <<>>
        /\ ValidRows(calls[i].page) = <<>>) =>
          /\ calls[i].exc # None
          /\ calls[i].exc.type = "ValueError"
          /\ calls[i].exc.msg = "No valid data found"
          /\ calls[i].ret = None
          /\ main_pc = "Failed" /\ main_exc = calls[i].exc /\ extracted_data = None

\* C4's case: two data rows, one of two cells and one of value 0.
C4_Witness ==
    \E i \in 1..Len(calls) :
       /\ calls[i].fn = "extract" /\ calls[i].http = "ok"
       /\ calls[i].page.tables # <<>>
       /\ Len(DataRows(calls[i].page)) = 2
       /\ DataRows(calls[i].page)[1][1] = <<"7">>
       /\ DataRows(calls[i].page)[2][1] = <<"5">>
       /\ calls[i].exc # None /\ calls[i].exc.msg = "No valid data found"

\* The five columns of the transformed frame.
FiveColumns == <<"Name", "MC_USD_Billion", "MC_GBP_Billion", "MC_EUR_Billion",
                 "MC_INR_Billion">>

\* The rate table a rate file stands for: the built-in one when there is no
\* file, else the rate of each currency the file has a line for (the files
\* of the model hold no currency twice).
RateTable(file) ==
    IF file = None THEN [EUR |-> 93, GBP |-> 80, INR |-> 8295]
    ELSE [c \in {file.lines[k][1] : k \in 1..Len(file.lines)} |->
            file.lines[CHOOSE k \in 1..Len(file.lines) : file.lines[k][1] = c][2]]

HoldsAll(R) == {"GBP", "EUR", "INR"} \subseteq DOMAIN R

\* r (hundredths) is the product p (ten-thousandths) rounded to two
\* decimals: no hundredth is nearer, and of two equally near it is the even.
IsRounded(r, p) ==
    LET d == 100 * r - p
    IN  /\ d >= -50 /\ d <= 50
        /\ d \in {-50, 50} => r % 2 = 0

\* The rows of out are those of in, in order, each with its name and usd
\* value kept and the three values converted with R added.
Converted(in, out, R) ==
    /\ out.columns = FiveColumns
    /\ Len(out.rows) = Len(in.rows)
    /\ \A k \in 1..Len(in.rows) :
          /\ Len(out.rows[k]) = 5
          /\ out.rows[k][1] = in.rows[k][1]
          /\ out.rows[k][2] = in.rows[k][2]
          /\ IsRounded(out.rows[k][3], in.rows[k][2] * R["GBP"])
          /\ IsRounded(out.rows[k][4], in.rows[k][2] * R["EUR"])
          /\ IsRounded(out.rows[k][5], in.rows[k][2] * R["INR"])

\* The calls of transform whose rate table could be read.
IsTransform(c) == c.fn = "transform" /\ (c.rate_file = None \/ c.read_csv = "ok")

\* C5: every call of transform whose rate table holds GBP, EUR and INR
\* returns one record per input record, in the same order, with name and
\* usd unchanged and gbp, eur, inr the usd value times the rate of that
\* currency rounded to two decimals.  The scenario: 100.0 with the rates
\* 0.8, 0.93, 82.95 gives 80.0, 93.0, 8295.0.
C5_TransformConverts ==
    /\ \A i \in 1..Len(calls) :
          (IsTransform(calls[i]) /\ HoldsAll(RateTable(calls[i].rate_file))) =>
             /\ calls[i].exc = None
             /\ Converted(calls[i].df, calls[i].ret, RateTable(calls[i].rate_file))
    /\ conversions(DataFrame(<< << <<"A">>, 10000 >> >>, TABLE_ATTRIBUTES),
                   [GBP |-> 80, EUR |-> 93, INR |-> 8295]).df.rows
          = << << <<"A">>, 10000, 8000, 9300, 829500 >> >>

\* C5's case: two records converted with the rates of a file, the second
\* (150.5) a tie for each of 0.75 and 0.95.
C5_Witness ==
    \E i \in 1..Len(calls) :
       /\ IsTransform(calls[i]) /\ calls[i].rate_file # None
       /\ HoldsAll(RateTable(calls[i].rate_file))
       /\ Len(calls[i].df.rows) = 2
       /\ calls[i].exc = None
       /\ calls[i].ret.rows[2] = << <<"J">>, 15050, 11288, 14298, 1241625 >>

\* The place of a one-part message in the log, 0 when it is not there.
LogAt(message) ==
    IF \E k \in 1..Len(log) : log[k] = <<message>>
    THEN CHOOSE k \in 1..Len(log) : log[k] = <<message>>
    ELSE 0

\* C6: every call of transform made while the rate file does not exist
\* returns, without raising, the records converted with the rates EUR 0.93,
\* GBP 0.8, INR 82.95, and the log holds the warning after the entry that
\* starts the transformation and before the one that ends it.
C6_DefaultRates ==
    \A i \in 1..Len(calls) :
       (calls[i].fn = "transform" /\ calls[i].rate_file = None) =>
          /\ calls[i].exc = None
          /\ Converted(calls[i].df, calls[i].ret, [EUR |-> 93, GBP |-> 80, INR |-> 8295])
          /\ LogAt("Starting data transformation...") > 0
          /\ LogAt("Exchange rates CSV not found, using default rates")
                = LogAt("Starting data transformation...") + 1
          /\ LogAt("Data transformation complete. Initiating Loading process")
                = LogAt("Exchange rates CSV not found, using default rates") + 1

\* C6's case: main transforms two records with no rate file.
C6_Witness ==
    /\ entry = "run_etl" /\ rate_file = None
    /\ \E i \in 1..Len(calls) :
          /\ calls[i].fn = "transform" /\ calls[i].rate_file = None
          /\ Len(calls[i].df.rows) = 2
          /\ calls[i].ret # None
          /\ calls[i].ret.rows[1] = << <<"J">>, 15050, 12040, 13996, 1248398 >>

\* The first of GBP, EUR, INR, the order of the conversions, that R lacks.
FirstMissing(R) ==
    IF "GBP" \notin DOMAIN R THEN "GBP"
    ELSE IF "EUR" \notin DOMAIN R THEN "EUR" ELSE "INR"

\* C7 as stated: every call of transform whose rate table lacks GBP, EUR or
\* INR raises KeyError (the specification's ConfigError) and returns
\* nothing, and main, when it made the call, calls nothing after it.
C7_MissingKeyAlwaysFails ==
    \A i \in 1..Len(calls) :
       (IsTransform(calls[i]) /\ ~HoldsAll(RateTable(calls[i].rate_file))) =>
          /\ calls[i].exc # None
          /\ calls[i].exc.type = "KeyError"
          /\ calls[i].ret = None
          /\ entry = "run_etl" => i = Len(calls) /\ main_pc = "Failed"

\* C7 as amended: every call of transform on at least one record whose
\* rate table lacks GBP, EUR or INR raises KeyError for the first of the
\* three, in that order, that is missing, and returns nothing; main, when
\* it made the call, is at Failed and has called no loader and no query.
C7_MissingKeyFails ==
    \A i \in 1..Len(calls) :
       (/\ IsTransform(calls[i]) /\ ~HoldsAll(RateTable(calls[i].rate_file))
        /\ calls[i].df.rows # <<>>) =>
          /\ calls[i].exc # None
          /\ calls[i].exc.type = "KeyError"
          /\ calls[i].exc.msg = FirstMissing(RateTable(calls[i].rate_file))
          /\ calls[i].ret = None
          /\ entry = "run_etl" =>
                /\ i = Len(calls) /\ main_pc = "Failed" /\ main_exc = calls[i].exc
                /\ transformed_data = None
                /\ \A k \in 1..Len(calls) :
                      calls[k].fn \notin {"load_to_csv", "load_to_db", "run_query"}

\* C7's case: main's transform with a rate file that has GBP but not EUR.
C7_Witness ==
    /\ entry = "run_etl" /\ pc = "exited"
    /\ \E i \in 1..Len(calls) :
          /\ IsTransform(calls[i]) /\ calls[i].df.rows # <<>>
          /\ DOMAIN RateTable(calls[i].rate_file) = {"GBP", "INR"}
          /\ calls[i].exc # None /\ calls[i].exc.msg = "EUR"

\* The columns and rows of a frame, as a table holds them.
TableOf(df) == [columns |-> df.columns, rows |-> df.rows]

\* C8: every call of load_to_db that succeeds leaves the table with the
\* columns and rows of the frame it was given and nothing else, whatever
\* the table held before; a successful call that follows a successful call
\* with the same frame leaves the table as the first one left it.
C8_LoadToDbReplaces ==
    /\ \A i \in 1..Len(calls) :
          (calls[i].fn = "load_to_db" /\ calls[i].exc = None) =>
             calls[i].table = TableOf(calls[i].df)
    /\ \A i \in 1..(Len(calls) - 1) :
          (/\ calls[i].fn = "load_to_db" /\ calls[i].exc = None
           /\ calls[i + 1].fn = "load_to_db" /\ calls[i + 1].exc = None
           /\ calls[i + 1].df = calls[i].df) =>
             /\ calls[i + 1].before = calls[i].table
             /\ calls[i + 1].table = calls[i].table
    /\ (calls # <<>> /\ Last(calls).fn = "load_to_db") => db_table = Last(calls).table

\* C8's case: a client loads a frame of two records twice into a database
\* whose table held another row.
C8_Witness ==
    /\ Len(calls) = 3
    /\ calls[2].fn = "load_to_db" /\ calls[2].exc = None
    /\ calls[2].before = OldTable
    /\ Len(calls[2].df.rows) = 2
    /\ calls[3].fn = "load_to_db" /\ calls[3].exc = None
    /\ db_table = TableOf(sample_data)

\* Reading a CSV line back: its fields, a quoted field without its quotes
\* and with its doubled quotes single.
RECURSIVE split_fields(_, _, _)
split_fields(s, field, quoted) ==
    IF s = <<>> THEN <<field>>
    ELSE IF quoted
    THEN IF Head(s) = "\""
         THEN IF Len(s) >= 2 /\ s[2] = "\""
              THEN split_fields(Tail(Tail(s)), Append(field, "\""), TRUE)
              ELSE split_fields(Tail(s), field, FALSE)
         ELSE split_fields(Tail(s), Append(field, Head(s)), TRUE)
    ELSE IF Head(s) = "," THEN <<field>> \o split_fields(Tail(s), <<>>, FALSE)
    ELSE IF Head(s) = "\"" THEN split_fields(Tail(s), field, TRUE)
    ELSE split_fields(Tail(s), Append(field, Head(s)), FALSE)

\* The table a CSV file holds: the names of its header line, and of each
\* further line the name as text and the other fields as numbers.
ReadCsv(file) ==
    LET header == split_fields(file.lines[1], <<>>, FALSE)
    IN  [columns |-> [j \in 1..Len(header) |-> header[j][1]],
         rows    |-> [i \in 1..(Len(file.lines) - 1) |->
                        LET f == split_fields(file.lines[i + 1], <<>>, FALSE)
                        IN  [j \in 1..Len(f) |-> IF j = 1 THEN f[j] ELSE float(f[j]).val]]]

\* How many calls of fn were made.
Count(fn) == Cardinality({i \in 1..Len(calls) : calls[i].fn = fn})

\* C10: when main is at Done, the CSV file and the table each hold exactly
\* the rows of transformed_data, in its order, under its five columns;
\* load_to_csv and load_to_db were each called once, with that frame, which
\* is what transform returned.  When main failed in load_to_db, the CSV
\* file holds that frame and the table is as it was before, or dropped.
C10_OutputsAgree ==
    entry = "run_etl" =>
      /\ main_pc = "Done" =>
            /\ transformed_data.columns = FiveColumns
            /\ output_csv # None
            /\ ReadCsv(output_csv) = TableOf(transformed_data)
            /\ db_table = TableOf(transformed_data)
            /\ Count("load_to_csv") = 1 /\ Count("load_to_db") = 1
            /\ \A i \in 1..Len(calls) :
                  /\ calls[i].fn \in {"load_to_csv", "load_to_db"} =>
                        calls[i].df = transformed_data
                  /\ calls[i].fn = "transform" => calls[i].ret = transformed_data
      /\ (main_pc = "Failed" /\ main_exc.origin = "load_to_db") =>
            /\ ReadCsv(output_csv) = TableOf(transformed_data)
            /\ db_table \in {Last(calls).before, None}

\* C10's case: a run that reached Done with two records, one of them with a
\* comma in its name, over the outputs of an earlier run.
C10_Witness ==
    /\ entry = "run_etl" /\ pc = "exited" /\ main_pc = "Done"
    /\ calls[1].fn = "connect" /\ calls[5].before = OldTable
    /\ Len(transformed_data.rows) = 2
    /\ transformed_data.rows[2][1] = <<"F", ",", "G">>
    /\ db_table = TableOf(transformed_data)

\* A run that failed in load_to_db and left the CSV file new, the table old.
C10_NewCsvOldTable ==
    /\ entry = "run_etl" /\ main_pc = "Failed" /\ main_exc.origin = "load_to_db"
    /\ ReadCsv(output_csv) = TableOf(transformed_data)
    /\ db_table = OldTable

=============================================================================
